---- MODULE Spec2Model ----
(***************************************************************************)
(* RavenDB MCP server: the CallTool dispatcher (server.ts), the connection *)
(* manager (operations/ravendb/connection.ts), the data handlers           *)
(* (documents.ts, queries.ts, indexes.ts) and the error normalisation      *)
(* (common/errors.ts).                                                     *)
(*                                                                         *)
(* Texts (error messages, serialized payloads) are sequences of tokens;    *)
(* concatenation of texts is concatenation of sequences, and the substring *)
(* test String.includes is Contains below.                                 *)
(***************************************************************************)
EXTENDS Integers, Sequences, FiniteSets, TLC

VARIABLES
    proc,         \* the process: "starting", "serving", "failed" (creation threw),
                  \* "exit 0" (a termination signal was handled)
    auth,         \* the configuration read from the environment, but the default URL
    defaultUrl,   \* config.defaultUrl ("" when RAVENDB_URL is not set)
    connection,   \* server.ts `let connection`: a RavenDBConnection object id, 0 = null
    conns,        \* the RavenDBConnection objects: documentStore (0 = null), currentDatabase
    stores,       \* the DocumentStore handles created so far and how often each was disposed
    inflight,     \* tool calls suspended at an await
    resp,         \* the tool call that responded last, with its response
    docs,         \* the documents of the RavenDB servers: see Database below
    failure,      \* a thrown value on its way through nested catch blocks: see
                  \* Failures below
    hist          \* history, read by no handler: whether an initialize-connection
                  \* has succeeded; the database named by the initialize-connection
                  \* issued last or by a select-database that succeeded since, and
                  \* which of the two it was

vars == <<proc, auth, defaultUrl, connection, conns, stores, inflight, resp, docs, hist,
          failure>>

----------------------------------------------------------------------------
(* Bounds *)

MaxInits == 2      \* initialize-connection calls that create a Session
MaxInflight == 1   \* tool calls suspended at an await at the same time
MaxGenerated == 1  \* document ids the client generates
MaxWords == 3      \* words in the text of a thrown value
MaxPasses == 2     \* catch blocks a thrown value passes before the dispatcher's

Null == "<null>"        \* JavaScript null / undefined
Missing == "<missing>"  \* an argument that is absent or not a string
Secret == "s3cr3t"      \* the configured credential value (config.apiKey)

NotAString == "<not a string>"  \* an argument of another type than string

Databases == {"d1", "d2"}

----------------------------------------------------------------------------
(* Texts *)

\* The keywords a token contains as substrings.
Keywords(tok) ==
    CASE tok = "certificate"    -> {"certificate", "cert"}
      [] tok = "invalid api key" -> {"invalid", "api key"}
      [] tok = "uncertain"      -> {"uncertain", "cert"}
      [] OTHER                  -> {tok}

Contains(text, kw) == \E i \in 1..Len(text) : kw \in Keywords(text[i])

RECURSIVE Flatten(_)
Flatten(fields) ==
    IF fields = <<>> THEN <<>>
    ELSE <<Head(fields)[1]>> \o Head(fields)[2] \o Flatten(Tail(fields))

----------------------------------------------------------------------------
(* Thrown values.  kind: "McpError" (instanceof McpError), "Error"         *)
(* (instanceof Error), "Object" (a plain object with name and message),    *)
(* "String" (a thrown primitive).  code "" and statusCode 0 are undefined. *)
(* details: present FALSE is undefined; fields are the <<key, value text>>  *)
(* pairs of the object in insertion order.                                 *)

NoDetails == [array |-> FALSE, fields |-> <<>>, present |-> FALSE]

McpError(code, message) ==
    [kind |-> "McpError", message |-> <<"MCP error", code>> \o message,
     code |-> code, statusCode |-> 0, details |-> NoDetails]

ZodError(tool) ==
    [kind |-> "Error", message |-> <<"ZodIssues", tool>>,
     code |-> "", statusCode |-> 0, details |-> NoDetails]

createRavenDBMcpError(message, code, statusCode, details) ==
    [kind |-> "Object", message |-> message,
     code |-> code, statusCode |-> statusCode, details |-> details]

isRavenDBMcpError(error) == error.kind \in {"McpError", "Error", "Object"}

\* error instanceof Error ? error.message : String(error)
MessageOf(error) ==
    CASE error.kind \in {"McpError", "Error"} -> error.message
      [] error.kind = "Object"                -> <<"[object Object]">>
      [] OTHER                                -> error.message

RedactedKeys ==
    {"stackTrace", "authentication", "password", "apiKey", "cert", "certificate"}

formatRavenDBMcpError(error) ==
    LET safeDetails == SelectSeq(error.details.fields,
                                 LAMBDA f : f[1] \notin RedactedKeys)
    IN  <<"RavenDB Error:">> \o error.message
        \o (IF error.code # "" THEN <<"Code:", error.code>> ELSE <<>>)
        \o (IF error.statusCode # 0
            THEN <<"Status:", ToString(error.statusCode)>> ELSE <<>>)
        \o (IF error.details.present /\ ~error.details.array /\ safeDetails # <<>>
            THEN <<"Details:">> \o Flatten(safeDetails) ELSE <<>>)

convertToMcpError(error) ==
    IF error.kind = "McpError" THEN error
    ELSE IF isRavenDBMcpError(error)
    THEN LET errorCode ==
                 IF error.statusCode = 0 THEN "InvalidRequest"
                 ELSE IF error.statusCode \in {401, 403} THEN "InvalidRequest"
                 ELSE IF error.statusCode = 404 THEN "InvalidParams"
                 ELSE IF error.statusCode >= 500 THEN "InternalError"
                 ELSE "InvalidRequest"
         IN  McpError(errorCode, formatRavenDBMcpError(error))
    ELSE McpError("InternalError", <<"Error:">> \o MessageOf(error))

\* ClassifyMessage testing the username/password keywords before the
\* certificate keywords.
ClassifyMessageAuthFirst(message) ==
    IF Contains(message, "username") \/ Contains(message, "password")
       \/ Contains(message, "credentials") \/ Contains(message, "unauthorized")
    THEN [errorCode |-> "auth_failed", statusCode |-> 401,
          enhanced |-> <<"Authentication failed:">> \o message
                       \o <<"Please check your username and password.">>]
    ELSE IF Contains(message, "certificate") \/ Contains(message, "cert")
    THEN IF Contains(message, "not found") \/ Contains(message, "could not find")
            \/ Contains(message, "no such file")
         THEN [errorCode |-> "certificate_not_found", statusCode |-> 401,
               enhanced |-> <<"Certificate file not found:">> \o message
                            \o <<"Please check the RAVENDB_CERT_PATH environment variable.">>]
         ELSE IF Contains(message, "invalid") \/ Contains(message, "malformed")
                 \/ Contains(message, "corrupt")
         THEN [errorCode |-> "certificate_invalid", statusCode |-> 401,
               enhanced |-> <<"Invalid certificate:">> \o message
                            \o <<"Please ensure the certificate is in the correct format.">>]
         ELSE IF Contains(message, "expired")
         THEN [errorCode |-> "certificate_expired", statusCode |-> 401,
               enhanced |-> <<"Certificate expired:">> \o message
                            \o <<"Please provide a valid, non-expired certificate.">>]
         ELSE [errorCode |-> "certificate_error", statusCode |-> 401,
               enhanced |-> <<"Certificate error:">> \o message
                            \o <<"Please check your certificate configuration.">>]
    ELSE IF Contains(message, "api key") \/ Contains(message, "apikey")
    THEN [errorCode |-> "api_key_invalid", statusCode |-> 401,
          enhanced |-> <<"API key authentication failed:">> \o message
                       \o <<"Please check your API key.">>]
    ELSE [errorCode |-> "unknown", statusCode |-> 500, enhanced |-> message]

\* The category, status and enhanced message handleRavenDBError derives from
\* the text of an error that is not yet an McpError.
ClassifyMessage(message) ==
    IF Contains(message, "certificate") \/ Contains(message, "cert")
    THEN IF Contains(message, "not found") \/ Contains(message, "could not find")
            \/ Contains(message, "no such file")
         THEN [errorCode |-> "certificate_not_found", statusCode |-> 401,
               enhanced |-> <<"Certificate file not found:">> \o message
                            \o <<"Please check the RAVENDB_CERT_PATH environment variable.">>]
         ELSE IF Contains(message, "password") \/ Contains(message, "passphrase")
         THEN [errorCode |-> "certificate_password_invalid", statusCode |-> 401,
               enhanced |-> <<"Invalid certificate password:">> \o message
                            \o <<"Please check the RAVENDB_CERT_PASSWORD environment variable.">>]
         ELSE IF Contains(message, "invalid") \/ Contains(message, "malformed")
                 \/ Contains(message, "corrupt")
         THEN [errorCode |-> "certificate_invalid", statusCode |-> 401,
               enhanced |-> <<"Invalid certificate:">> \o message
                            \o <<"Please ensure the certificate is in the correct format.">>]
         ELSE IF Contains(message, "expired")
         THEN [errorCode |-> "certificate_expired", statusCode |-> 401,
               enhanced |-> <<"Certificate expired:">> \o message
                            \o <<"Please provide a valid, non-expired certificate.">>]
         ELSE [errorCode |-> "certificate_error", statusCode |-> 401,
               enhanced |-> <<"Certificate error:">> \o message
                            \o <<"Please check your certificate configuration.">>]
    ELSE IF Contains(message, "username") \/ Contains(message, "password")
            \/ Contains(message, "credentials") \/ Contains(message, "unauthorized")
    THEN [errorCode |-> "auth_failed", statusCode |-> 401,
          enhanced |-> <<"Authentication failed:">> \o message
                       \o <<"Please check your username and password.">>]
    ELSE IF Contains(message, "api key") \/ Contains(message, "apikey")
    THEN [errorCode |-> "api_key_invalid", statusCode |-> 401,
          enhanced |-> <<"API key authentication failed:">> \o message
                       \o <<"Please check your API key.">>]
    ELSE [errorCode |-> "unknown", statusCode |-> 500, enhanced |-> message]

\* handleRavenDBError normalising an McpError like every other value.
handleRavenDBErrorAgain(error, operation) ==
    LET c == ClassifyMessage(MessageOf(error))
        ravenDBError ==
            createRavenDBMcpError(
                <<"Error during", operation>> \o c.enhanced,
                IF error.code # "" THEN error.code ELSE c.errorCode,
                IF error.statusCode # 0 THEN error.statusCode ELSE c.statusCode,
                error.details)
    IN  McpError(IF ravenDBError.statusCode = 404 THEN "InvalidParams"
                 ELSE IF ravenDBError.statusCode >= 500 THEN "InternalError"
                 ELSE "InvalidRequest",
                 formatRavenDBMcpError(ravenDBError))

\* handleRavenDBError never returns: the value is the McpError it throws.
handleRavenDBError(error, operation) ==
    IF error.kind = "McpError" THEN error
    ELSE LET c == ClassifyMessage(MessageOf(error))
             \* a thrown primitive has no code, statusCode or details property
             own == IF error.kind = "String"
                    THEN [code |-> "", statusCode |-> 0, details |-> NoDetails]
                    ELSE [code |-> error.code, statusCode |-> error.statusCode,
                          details |-> error.details]
             ravenDBError ==
                 createRavenDBMcpError(
                     <<"Error during", operation>> \o c.enhanced,
                     IF own.code # "" THEN own.code ELSE c.errorCode,
                     IF own.statusCode # 0 THEN own.statusCode ELSE c.statusCode,
                     own.details)
         IN  convertToMcpError(ravenDBError)

----------------------------------------------------------------------------
(* Failures: a value thrown inside a handler and what the catch blocks it    *)
(* passes make of it.  input: the value thrown first; passes: the calls of  *)
(* handleRavenDBError it has been through; first: what the first call       *)
(* threw; value: what the last call threw.                                  *)

NewFailure(error) == [input |-> error, passes |-> 0, first |-> error, value |-> error]

NoFailure == NewFailure(McpError("", <<>>))

\* Words of the texts an external error can carry.
ErrorWords ==
    <<"certificate", "uncertain", "not found", "password", "invalid api key",
      "malformed", "expired", "username", "Unauthorized", "credentials",
      "apikey", "oops">>

RECURSIVE SubText(_, _)
SubText(S, i) ==
    IF i > Len(ErrorWords) THEN <<>>
    ELSE (IF i \in S THEN <<ErrorWords[i]>> ELSE <<>>) \o SubText(S, i + 1)

\* The texts of at most MaxWords of these words.
ErrorTexts ==
    {SubText(S, 1) : S \in {T \in SUBSET (1..Len(ErrorWords)) : Cardinality(T) <= MaxWords}}

\* The values a handler can catch (`error: any`): an Error with or without
\* its own code and statusCode, a thrown string, the plain object of
\* createRavenDBMcpError, and an McpError.
ErrorInputs ==
    {[kind |-> "Error", message |-> t, code |-> c, statusCode |-> n, details |-> NoDetails] :
         t \in ErrorTexts, c \in {"", "ECONNREFUSED"}, n \in {0, 404}}
    \cup {[kind |-> "String", message |-> t, code |-> "", statusCode |-> 0,
           details |-> NoDetails] : t \in ErrorTexts}
    \cup {createRavenDBMcpError(<<"certificate", "expired">>, c, n, NoDetails) :
              c \in {"", "no_database"}, n \in {0, 400}}
    \cup {McpError("InvalidParams", <<"Database name is required">>),
          McpError("InvalidRequest", <<"certificate", "password">>)}

----------------------------------------------------------------------------
(* Configuration *)

\* configFromEnv: an unset variable and an empty one are both "" (no code
\* tells them apart but the URL check of ConfigSchema, for which see BadUrl).
EnvConfig(authMethod, apiKey, certPath, certPassword, username, password, queryTimeout) ==
    [authMethod |-> authMethod, apiKey |-> apiKey, certPath |-> certPath,
     certPassword |-> certPassword, username |-> username, password |-> password,
     queryTimeout |-> queryTimeout]

BadUrl == "not a url"   \* a RAVENDB_URL that z.string().url() rejects

\* The configurations the environment can give.  queryTimeout: "unset",
\* "positive", or "invalid" (parseInt gave NaN, zero or a negative number).
Configs ==
    {EnvConfig(m, k, cp, cpw, u, pw, qt) :
         m \in {"apikey", "certificate", "username"},
         k \in {"", Secret}, cp \in {"", "cert.pfx"}, cpw \in {"", Secret},
         u \in {"", "user"}, pw \in {"", Secret},
         qt \in {"unset", "positive", "invalid"}}

\* ConfigSchema.parse(config) does not throw.
ConfigSchemaOk(c, url) == url # BadUrl /\ c.queryTimeout # "invalid"

\* validateConfig with ConfigSchema.parse accepting every value.
validateConfigNoSchema(c, url) ==
    IF c.authMethod = "apikey" /\ c.apiKey = ""
    THEN [ok |-> FALSE, message |-> <<"API key is required for API key authentication">>]
    ELSE IF c.authMethod = "certificate" /\ c.certPath = ""
    THEN [ok |-> FALSE,
          message |-> <<"Certificate path is required for certificate authentication">>]
    ELSE IF c.authMethod = "username" /\ (c.username = "" \/ c.password = "")
    THEN [ok |-> FALSE,
          message |-> <<"Username and password are required for username authentication">>]
    ELSE [ok |-> TRUE, message |-> <<>>]

\* validateConfig: whether it returns, and the message of what it throws.
validateConfig(c, url) ==
    IF ~ConfigSchemaOk(c, url)
    THEN [ok |-> FALSE, message |-> <<"ZodIssues", "config">>]
    ELSE IF c.authMethod = "apikey" /\ c.apiKey = ""
    THEN [ok |-> FALSE, message |-> <<"API key is required for API key authentication">>]
    ELSE IF c.authMethod = "certificate" /\ c.certPath = ""
    THEN [ok |-> FALSE,
          message |-> <<"Certificate path is required for certificate authentication">>]
    ELSE IF c.authMethod = "username" /\ (c.username = "" \/ c.password = "")
    THEN [ok |-> FALSE,
          message |-> <<"Username and password are required for username authentication">>]
    ELSE [ok |-> TRUE, message |-> <<>>]

\* The validated configuration the server was created with.
config == [authMethod |-> auth.authMethod, apiKey |-> auth.apiKey, defaultUrl |-> defaultUrl]

\* RavenDBConnection.createAuthOptions: the options, or the McpError thrown.
createAuthOptions ==
    IF config.authMethod = "apikey"
    THEN IF config.apiKey = ""
         THEN [ok |-> FALSE,
               error |-> McpError("InvalidParams",
                             <<"API key is required for API key authentication.">>)]
         ELSE [ok |-> TRUE, error |-> McpError("", <<>>)]
    ELSE [ok |-> TRUE, error |-> McpError("", <<>>)]

----------------------------------------------------------------------------
(* Tool requests *)

ToolNames ==
    {"initialize-connection", "select-database", "show-collections", "show-indexes",
     "get-document", "store-document", "delete-document", "query-documents"}

DataTools == ToolNames \ {"initialize-connection", "select-database"}

RequestNames == ToolNames \cup {"drop-database"}

NoArgs ==
    [present |-> FALSE, server_url |-> Missing, database |-> Missing,
     id |-> Missing, query |-> Missing, document |-> Missing]

Args(server_url, database, id, query) ==
    [present |-> TRUE, server_url |-> server_url, database |-> database,
     id |-> id, query |-> query, document |-> Missing]

\* store-document arguments: the document and the optional id.
StoreArgs(document, id) == [Args(Missing, Missing, id, Missing) EXCEPT !.document = document]

\* The argument payloads a request of each name is tried with.
ArgChoices(name) ==
    {NoArgs} \cup
    CASE name = "initialize-connection" ->
             {Args("u1", d, Missing, Missing) : d \in Databases \cup {""}}
             \cup {Args("", "d1", Missing, Missing),
                   Args(Missing, "d1", Missing, Missing)}
      [] name = "select-database" ->
             {Args(Missing, d, Missing, Missing) :
                  d \in Databases \cup {"", Missing}}
      [] name \in {"get-document", "delete-document"} ->
             {Args(Missing, Missing, i, Missing) : i \in {"a", Missing}}
      [] name = "store-document" ->
             {StoreArgs("A", i) : i \in {"a", Missing, NotAString}}
      [] name = "query-documents" ->
             {Args(Missing, Missing, Missing, q) : q \in {"q", NotAString}}
      [] OTHER -> {Args(Missing, Missing, Missing, Missing)}

IsString(v) == v \notin {Missing, NotAString}

\* SchemaOk with the get-document case not parsing its arguments.
SchemaOkGetDocumentUnparsed(name, args) ==
    CASE name = "initialize-connection" ->
             IsString(args.server_url) /\ IsString(args.database)
      [] name = "select-database" -> IsString(args.database)
      [] name = "delete-document" -> IsString(args.id)
      [] name = "store-document" -> args.id # NotAString
      [] name = "query-documents" -> IsString(args.query)
      [] OTHER -> TRUE

\* <Tool>Schema.parse(request.params.arguments) succeeds.
SchemaOk(name, args) ==
    CASE name = "initialize-connection" ->
             IsString(args.server_url) /\ IsString(args.database)
      [] name = "select-database" -> IsString(args.database)
      [] name \in {"get-document", "delete-document"} -> IsString(args.id)
      [] name = "store-document" -> args.id # NotAString
      [] name = "query-documents" -> IsString(args.query)
      [] OTHER -> TRUE

\* DefaultCase throwing the error code of an argument failure.
DefaultCaseInvalidParams(name) == McpError("InvalidParams", <<"Unknown tool:", name>>)

\* The default case of the switch over request.params.name.
DefaultCase(name) == McpError("MethodNotFound", <<"Unknown tool:", name>>)

\* Rejection with the initialize-connection case not parsing its arguments.
RejectionInitializeUnparsed(name, args) ==
    IF ~args.present
    THEN [thrown |-> TRUE,
          error |-> McpError("InvalidParams", <<"Arguments are required">>)]
    ELSE IF name \notin ToolNames
    THEN [thrown |-> TRUE, error |-> DefaultCase(name)]
    ELSE IF name # "initialize-connection" /\ ~SchemaOk(name, args)
    THEN [thrown |-> TRUE, error |-> ZodError(name)]
    ELSE [thrown |-> FALSE, error |-> McpError("", <<>>)]

\* What the dispatcher throws before any case body runs, if anything.
Rejection(name, args) ==
    IF ~args.present
    THEN [thrown |-> TRUE,
          error |-> McpError("InvalidParams", <<"Arguments are required">>)]
    ELSE IF name \notin ToolNames
    THEN [thrown |-> TRUE, error |-> DefaultCase(name)]
    ELSE IF ~SchemaOk(name, args)
    THEN [thrown |-> TRUE, error |-> ZodError(name)]
    ELSE [thrown |-> FALSE, error |-> McpError("", <<>>)]

NotInitializedError ==
    McpError("InvalidRequest",
             <<"Connection not initialized. Please call initialize-connection first.">>)

\* DispatcherCatch handling McpError alone and rethrowing every other value.
DispatcherCatchMcpErrorOnly(error) ==
    IF error.kind = "McpError"
    THEN [isError |-> TRUE, escaped |-> FALSE, payload |-> <<>>,
          message |-> <<"MCP Error:">> \o error.message]
    ELSE [isError |-> FALSE, escaped |-> TRUE, payload |-> <<>>, message |-> <<>>]

\* The catch block of the CallTool handler: the response returned for a thrown value.
DispatcherCatch(error) ==
    [isError |-> TRUE, escaped |-> FALSE, payload |-> <<>>,
     message |-> IF error.kind = "McpError" THEN <<"MCP Error:">> \o error.message
                 ELSE IF isRavenDBMcpError(error) THEN error.message
                 ELSE <<"Error:">> \o MessageOf(error)]

\* return { content: [{ type: 'text', text: JSON.stringify(result, null, 2) }] }
Success(result) ==
    [isError |-> FALSE, escaped |-> FALSE, payload |-> result, message |-> <<>>]

----------------------------------------------------------------------------
(* Session *)

NewConnection == [documentStore |-> 0, currentDatabase |-> Null]

\* ConnectionAfterInitialize assigning `connection` only while it is null.
ConnectionKeptIfSet(old, fresh) == IF old = 0 THEN fresh ELSE old

\* The object the `connection` variable refers to after line 225.
ConnectionAfterInitialize(old, fresh) == fresh

\* The connection object the dispatcher passes to a handler.
DispatchTarget == connection

\* RavenDBConnection.checkConnection: the object thrown, if any.
checkConnection(c) ==
    IF conns[c].documentStore = 0
    THEN [thrown |-> TRUE,
          error |-> createRavenDBMcpError(
                        <<"Not connected to RavenDB. Please call initialize-connection first.">>,
                        "not_connected", 400, NoDetails)]
    ELSE IF conns[c].currentDatabase \in {Null, ""}
    THEN [thrown |-> TRUE,
          error |-> createRavenDBMcpError(
                        <<"No database selected. Please call select-database first.">>,
                        "no_database", 400, NoDetails)]
    ELSE [thrown |-> FALSE, error |-> McpError("", <<>>)]

\* The database a handler's work session is opened on:
\* store.openSession({ database: database || undefined }).
SessionDatabase(c) == conns[c].currentDatabase

\* selectDatabaseError with the two checks in the other order.
selectDatabaseErrorNameFirst(c, database) ==
    IF database = ""
    THEN [thrown |-> TRUE,
          error |-> McpError("InvalidParams", <<"Database name is required">>)]
    ELSE IF conns[c].documentStore = 0
    THEN [thrown |-> TRUE,
          error |-> McpError("InvalidRequest",
                        <<"Not connected to RavenDB. Please call initialize-connection first.">>)]
    ELSE [thrown |-> FALSE, error |-> McpError("", <<>>)]

\* RavenDBConnection.selectDatabase: the McpError thrown, if any.
selectDatabaseError(c, database) ==
    IF conns[c].documentStore = 0
    THEN [thrown |-> TRUE,
          error |-> McpError("InvalidRequest",
                        <<"Not connected to RavenDB. Please call initialize-connection first.">>)]
    ELSE IF database = ""
    THEN [thrown |-> TRUE,
          error |-> McpError("InvalidParams", <<"Database name is required">>)]
    ELSE [thrown |-> FALSE, error |-> McpError("", <<>>)]

\* SelectedDatabase leaving currentDatabase as it was.
SelectedDatabaseStale(c, database) == conns[c].currentDatabase

\* The value selectDatabase stores in currentDatabase.
SelectedDatabase(c, database) == database

OperationName(tool) ==
    CASE tool = "show-collections" -> "list collections"
      [] tool = "show-indexes"     -> "list indexes"
      [] tool = "get-document"     -> "get document"
      [] tool = "store-document"   -> "store document"
      [] tool = "delete-document"  -> "delete document"
      [] OTHER                     -> "execute query"

----------------------------------------------------------------------------
(* The errors the RavenDB client is tried with *)

ObjectDetails(fields) == [array |-> FALSE, fields |-> fields, present |-> TRUE]

ExtError(kind, message, details) ==
    [kind |-> kind, message |-> message, code |-> "", statusCode |-> 0,
     details |-> details]

\* The errors the client is made to throw in the dispatcher's behaviours.
ExtErrors ==
    {ExtError("Error", <<"invalid api key", Secret>>,
              ObjectDetails(<< <<"password", <<Secret>>>> >>)),
     ExtError("String", <<"oops">>, NoDetails)}

----------------------------------------------------------------------------
(* The database behind the client *)

\* docs.shared: other clients write to the servers too, so a request may get
\* any answer; otherwise this server is the only writer and docs.content maps
\* <<server URL, database, document id>> to the stored document, and docs.last
\* is the write committed last: <<tool, key, document>>.
NoDocuments == [k \in {} |-> ""]

SharedDatabase == [shared |-> TRUE, content |-> NoDocuments, last |-> <<>>]

PrivateDatabase == [shared |-> FALSE, content |-> NoDocuments, last |-> <<>>]

\* The ids session.store(document) generates (HiLo).
GenId(n) == "objects/" \o ToString(n)

GeneratedIds == {GenId(n) : n \in 1..MaxGenerated}

Generated == {k \in DOMAIN docs.content : k[3] \in GeneratedIds}

----------------------------------------------------------------------------
(* Tool calls *)

NoResponse == [isError |-> FALSE, escaped |-> FALSE, payload |-> <<>>, message |-> <<>>]

\* A tool call.  pc: "dispatch", "awaitClose" (initialize() at `await
\* this.close()`), "awaitClient" (a handler at its await of the database
\* client), "done" (the response is returned), "delivered".
\* conn: the RavenDBConnection initialize() runs on.  store, db: the handle and
\* the database name the call read from its connection.  session: the call's
\* work session ("none", "open", "disposed").
NewCall(name, args) ==
    [tool |-> name, args |-> args, pc |-> "dispatch",
     conn |-> 0, store |-> 0, db |-> Null, session |-> "none",
     consulted |-> FALSE,   \* the dispatcher read `connection` or replaced it
     ext |-> FALSE,         \* a request was sent to the database
     clientThrew |-> FALSE, \* that request failed
     releaseThrew |-> FALSE, \* documentStore.dispose() threw inside close()
     committed |-> FALSE,   \* session.saveChanges() has completed
     response |-> NoResponse]

Responded(call, response) == [call EXCEPT !.pc = "done", !.response = response]

Suspended(call, pc) == [call EXCEPT !.pc = pc]

NoCall == Suspended(NewCall("", NoArgs), "delivered")

InitPending == \E c \in inflight : c.tool = "initialize-connection"

Issue == Cardinality(inflight) < MaxInflight

Serving == proc = "serving"

\* The response returned last has been written to the transport.
Delivered == resp.pc = "delivered"

\* The state of a server that index.ts has created and connected.
Init ==
    /\ proc = "serving"
    /\ auth = EnvConfig("apikey", Secret, "", "", "", "", "unset")
    /\ defaultUrl \in {"", "u1"}
    /\ connection = 0
    /\ conns = <<>>
    /\ stores = <<>>
    /\ inflight = {}
    /\ resp = NoCall
    /\ docs = SharedDatabase
    /\ hist = [initOk |-> FALSE, database |-> Null, selected |-> FALSE]
    /\ failure = NoFailure

\* Lines 213-215, 360-364 and the failing <Tool>Schema.parse of each case:
\* the request is rejected before its case body runs.
RejectCall(name, args) ==
    /\ Serving /\ Delivered
    /\ Rejection(name, args).thrown
    /\ resp' = Responded(NewCall(name, args),
                         DispatcherCatch(Rejection(name, args).error))
    /\ UNCHANGED <<docs, proc, auth, failure, defaultUrl, connection, conns, stores, inflight, hist>>

\* `if (!connection) throw new McpError(...)` of the seven cases other than
\* initialize-connection.
NotInitialized(name, args) ==
    /\ Serving /\ Delivered
    /\ name \in ToolNames \ {"initialize-connection"}
    /\ ~Rejection(name, args).thrown
    /\ DispatchTarget = 0
    /\ resp' = Responded([NewCall(name, args) EXCEPT !.consulted = TRUE],
                         DispatcherCatch(NotInitializedError))
    /\ UNCHANGED <<docs, proc, auth, failure, defaultUrl, connection, conns, stores, inflight, hist>>

\* RavenDBConnection.close on object c: the handles after it, and c after it.
closeStores(c) ==
    IF c.documentStore # 0
    THEN [stores EXCEPT ![c.documentStore].disposed = @ + 1]
    ELSE stores

\* closeConnection clearing the handle alone.
closeConnectionKeepsDatabase(c) ==
    IF c.documentStore # 0 THEN [c EXCEPT !.documentStore = 0] ELSE c

closeConnection(c) ==
    IF c.documentStore # 0 THEN [documentStore |-> 0, currentDatabase |-> Null]
    ELSE c

\* case 'initialize-connection' up to the first await: a new RavenDBConnection
\* replaces `connection`, and initialize() on it runs to `await this.close()`,
\* close() acting on that new object.
InitializeBegin(args) ==
    LET fresh == Len(conns) + 1
        call  == Suspended([NewCall("initialize-connection", args) EXCEPT
                                !.consulted = TRUE, !.conn = fresh], "awaitClose")
    IN  /\ Serving /\ Delivered
        /\ Issue
        /\ Len(conns) < MaxInits
        /\ ~Rejection("initialize-connection", args).thrown
        /\ call \notin inflight  \* two identical calls in flight are not tried
        /\ connection' = ConnectionAfterInitialize(connection, fresh)
        /\ conns' = Append(conns, closeConnection(NewConnection))
        /\ stores' = closeStores(NewConnection)
        /\ inflight' = inflight \cup {call}
        /\ hist' = [hist EXCEPT !.database = args.database, !.selected = FALSE]
        /\ UNCHANGED <<docs, proc, auth, failure, defaultUrl, resp>>

\* initialize() after `await this.close()`: the URL, the auth options, then
\* new DocumentStore(...), documentStore.initialize(), currentDatabase.
\* outcome "ok": both client calls return; "constructor": new DocumentStore
\* throws e; "initialize": documentStore.initialize() throws e.
InitializeResume(call, outcome, e) ==
    LET c   == call.conn
        url == IF call.args.server_url # "" THEN call.args.server_url
               ELSE config.defaultUrl
        h   == Len(stores) + 1
        thrown ==
            IF url = ""
            THEN McpError("InvalidParams",
                     <<"Server URL is required. Provide it in the request or set RAVENDB_URL environment variable.">>)
            ELSE IF ~createAuthOptions.ok THEN createAuthOptions.error
            ELSE e
        failed   == url = "" \/ ~createAuthOptions.ok \/ outcome # "ok"
        assigned == url # "" /\ createAuthOptions.ok /\ outcome # "constructor"
    IN  /\ Serving /\ Delivered
        /\ call \in inflight
        /\ call.pc = "awaitClose"
        /\ inflight' = inflight \ {call}
        /\ IF assigned
           THEN /\ stores' = Append(stores, [owner |-> c, disposed |-> 0, url |-> url])
                /\ conns' = [conns EXCEPT ![c] =
                                [documentStore |-> h,
                                 currentDatabase |->
                                     IF failed THEN @.currentDatabase
                                     ELSE call.args.database]]
           ELSE UNCHANGED <<stores, conns>>
        /\ IF failed
           THEN /\ resp' = Responded(call,
                               DispatcherCatch(
                                   handleRavenDBError(thrown, "connection initialization")))
                /\ hist' = hist
           ELSE /\ resp' = Responded([call EXCEPT !.store = h, !.db = call.args.database],
                               Success(<<"server", url, "database", call.args.database>>))
                /\ hist' = [hist EXCEPT !.initOk = TRUE]
        /\ UNCHANGED <<docs, proc, auth, failure, defaultUrl, connection>>

\* case 'select-database' with a connection object: selectDatabase has no await
\* before its assignment, so the case runs as one step.
SelectDatabase(args) ==
    LET c    == DispatchTarget
        call == [NewCall("select-database", args) EXCEPT
                     !.consulted = TRUE, !.store = conns[c].documentStore]
        err  == selectDatabaseError(c, args.database)
    IN  /\ Serving /\ Delivered
        /\ ~Rejection("select-database", args).thrown
        /\ c # 0
        /\ IF err.thrown
           THEN /\ resp' = Responded(call,
                               DispatcherCatch(
                                   handleRavenDBError(err.error, "database selection")))
                /\ UNCHANGED conns
                /\ hist' = hist
           ELSE /\ conns' = [conns EXCEPT ![c].currentDatabase =
                                              SelectedDatabase(c, args.database)]
                /\ resp' = Responded(call, Success(<<"database", args.database>>))
                /\ hist' = [hist EXCEPT !.database = args.database, !.selected = TRUE]
        /\ UNCHANGED <<docs, proc, auth, failure, defaultUrl, connection, stores, inflight>>

----------------------------------------------------------------------------
(* Data, query and exploration handlers *)

Returned(result) == [thrown |-> FALSE, error |-> McpError("", <<>>), result |-> result]
Thrown(error) == [thrown |-> TRUE, error |-> error, result |-> <<>>]

\* One catch block of showIndexes (the inner and the outer one read the same).
ShowIndexesCatch(err) ==
    IF err.kind \in {"Error", "McpError"}
    THEN Thrown(handleRavenDBError(err, "list indexes"))
    ELSE Returned(<<"indexes">>)

\* HandlerCatch with storeDocument answering a failure the way showIndexes
\* answers a thrown non-Error.
HandlerCatchStoreSwallows(tool, err, inner) ==
    IF tool = "show-indexes"
    THEN LET first == IF inner THEN ShowIndexesCatch(err) ELSE Thrown(err)
         IN  IF first.thrown THEN ShowIndexesCatch(first.error) ELSE first
    ELSE IF tool = "store-document" THEN Returned(<<"id", "unknown">>)
    ELSE Thrown(handleRavenDBError(err, OperationName(tool)))

\* What a handler does with a value thrown inside its try block(s).
\* inner: the value was thrown inside the inner try of showIndexes, whose
\* catch block throws into the outer one.
HandlerCatch(tool, err, inner) ==
    IF tool = "show-indexes"
    THEN LET first == IF inner THEN ShowIndexesCatch(err) ELSE Thrown(err)
         IN  IF first.thrown THEN ShowIndexesCatch(first.error) ELSE first
    ELSE Thrown(handleRavenDBError(err, OperationName(tool)))

\* The dispatcher's return statement or catch block.
Respond(outcome) ==
    IF outcome.thrown THEN DispatcherCatch(outcome.error) ELSE Success(outcome.result)

\* Whether the handler disposes its work session (its finally block).
DisposesSession(tool) == tool # "show-indexes"

\* StoredId without the read of the generated id.
StoredIdNotReadBack(call) ==
    IF call.args.id \notin {Missing, ""} THEN call.args.id ELSE "unknown"

\* The id storeDocument stores under: `if (id)` ... else the id the client
\* generates, read back with session.advanced.getDocumentId(document).
StoredId(call) ==
    IF call.args.id \notin {Missing, ""} THEN call.args.id
    ELSE IF docs.shared THEN GenId(1)
    ELSE GenId(Cardinality(Generated) + 1)

\* DocKey reading the database name from the connection when the client
\* answers instead of from the session the call opened.
DocKeyLateRead(call) ==
    <<stores[call.store].url, conns[connection].currentDatabase,
      IF call.tool = "store-document" THEN StoredId(call) ELSE call.args.id>>

\* The document a call's work session addresses.
DocKey(call) ==
    <<stores[call.store].url, call.db,
      IF call.tool = "store-document" THEN StoredId(call) ELSE call.args.id>>

\* What session.load(id) resolves to when it finds the document.
Loaded(call) ==
    IF docs.shared THEN "<some document>" ELSE docs.content[DocKey(call)]

\* The answers the database can give to the call's request.
Answers(call) ==
    IF docs.shared THEN {"ok", "miss", "throws"}
    ELSE {"throws"} \cup
         CASE call.tool = "get-document" ->
                  IF DocKey(call) \in DOMAIN docs.content THEN {"ok"} ELSE {"miss"}
           [] call.tool = "store-document" ->
                  IF call.args.id \in {Missing, ""}
                     /\ Cardinality(Generated) >= MaxGenerated
                  THEN {} ELSE {"ok"}
           [] OTHER -> {"ok"}

\* The database after the call's request: saveChanges() commits the store or
\* the delete.
DocsAfter(call, outcome) ==
    IF docs.shared \/ outcome # "ok" THEN docs
    ELSE CASE call.tool = "store-document" ->
                  [docs EXCEPT !.content =
                       [k \in DOMAIN @ \cup {DocKey(call)} |->
                            IF k = DocKey(call) THEN call.args.document ELSE @[k]],
                               !.last = <<call.tool, DocKey(call), call.args.document>>]
           [] call.tool = "delete-document" ->
                  [docs EXCEPT !.content =
                       [k \in DOMAIN @ \ {DocKey(call)} |-> @[k]],
                               !.last = <<call.tool, DocKey(call), Missing>>]
           [] OTHER -> docs

\* Whether the handler has committed a write when the client answers.
Commits(tool, outcome) ==
    outcome = "ok" /\ tool \in {"store-document", "delete-document"}

\* ResultOf with getDocument lacking its `if (!document)` branch.
ResultOfNoMissBranch(call, outcome) ==
    CASE call.tool = "get-document" ->
             <<"document", IF outcome = "miss" THEN Null ELSE Loaded(call)>>
      [] call.tool = "store-document" -> <<"id", StoredId(call)>>
      [] call.tool = "delete-document"  -> <<"success", "true">>
      [] call.tool = "query-documents"  -> <<"totalResults", "results">>
      [] call.tool = "show-collections" -> <<"collections", "c1">>
      [] OTHER                          -> <<"indexes", "i1">>

ResultOf(call, outcome) ==
    CASE call.tool = "get-document" ->
             IF outcome = "miss"
             THEN <<"error", "Document with ID", call.args.id, "not found">>
             ELSE <<"document", Loaded(call)>>
      [] call.tool = "store-document" -> <<"id", StoredId(call)>>
      [] call.tool = "delete-document"  -> <<"success", "true">>
      [] call.tool = "query-documents"  -> <<"totalResults", "results">>
      [] call.tool = "show-collections" -> <<"collections", "c1">>
      [] OTHER                          -> <<"indexes", "i1">>

\* A data handler whose readiness check throws: the call ends in this step.
DataNotReady(name, args) ==
    LET c    == DispatchTarget
        call == [NewCall(name, args) EXCEPT
                     !.consulted = TRUE, !.store = conns[c].documentStore]
    IN  /\ Serving /\ Delivered
        /\ name \in DataTools
        /\ ~Rejection(name, args).thrown
        /\ c # 0
        /\ checkConnection(c).thrown
        /\ resp' = Responded(call,
                       Respond(HandlerCatch(name, checkConnection(c).error, FALSE)))
        /\ UNCHANGED <<docs, proc, auth, failure, defaultUrl, connection, conns, stores, inflight, hist>>

\* A data handler up to its first await: checkConnection, getCurrentDatabase,
\* getDocumentStore, openSession and the request sent to the database.
DataBegin(name, args) ==
    LET c    == DispatchTarget
        call == Suspended([NewCall(name, args) EXCEPT
                               !.consulted = TRUE,
                               !.store = conns[c].documentStore,
                               !.db = SessionDatabase(c), !.ext = TRUE,
                               !.session = "open"],
                          "awaitClient")
    IN  /\ Serving /\ Delivered
        /\ Issue
        /\ name \in DataTools
        /\ ~Rejection(name, args).thrown
        /\ c # 0
        /\ ~checkConnection(c).thrown
        /\ call \notin inflight  \* two identical calls in flight are not tried
        /\ inflight' = inflight \cup {call}
        /\ UNCHANGED <<docs, proc, auth, failure, defaultUrl, connection, conns, stores, resp, hist>>

\* The database answers: outcome "ok", "miss" (get-document: no such document)
\* or "throws" (the client throws e).
\* StoresAfterHandler disposing the DocumentStore along with the work session.
StoresAfterHandlerDisposed(call) ==
    [stores EXCEPT ![call.store].disposed = @ + 1]

\* The stores after a handler's finally block: session.dispose() ends the work
\* session; the DocumentStore it came from is not touched.
StoresAfterHandler(call) == stores

DataResume(call, outcome, e) ==
    /\ Serving /\ Delivered
    /\ call \in inflight
    /\ call.pc = "awaitClient"
    /\ outcome = "miss" => call.tool = "get-document"
    /\ outcome \in Answers(call)
    /\ inflight' = inflight \ {call}
    /\ docs' = DocsAfter(call, outcome)
    /\ resp' = Responded([call EXCEPT
                              !.session = IF DisposesSession(call.tool)
                                          THEN "disposed" ELSE @,
                              !.clientThrew = (outcome = "throws"),
                              !.committed = Commits(call.tool, outcome)],
                   Respond(IF outcome = "throws"
                           THEN HandlerCatch(call.tool, e, TRUE)
                           ELSE Returned(ResultOf(call, outcome))))
    /\ stores' = StoresAfterHandler(call)
    /\ UNCHANGED <<proc, auth, failure, defaultUrl, connection, conns, hist>>

\* The SDK writes the returned response to the transport; the event loop
\* turns to the next request or continuation after that.
Deliver ==
    /\ Serving /\ ~Delivered
    /\ resp' = NoCall
    /\ UNCHANGED <<docs, proc, auth, failure, defaultUrl, connection, conns, stores, inflight, hist>>

\* process.on('SIGINT' / 'SIGTERM'): safeLog, then process.exit(0).
Signal ==
    /\ Serving /\ Delivered
    /\ proc' = "exit 0"
    /\ UNCHANGED <<docs, auth, failure, defaultUrl, connection, conns, stores, inflight, resp, hist>>

Next ==
    \/ Deliver
    \/ Signal
    \/ \E name \in RequestNames : \E args \in ArgChoices(name) : RejectCall(name, args)
    \/ \E name \in ToolNames : \E args \in ArgChoices(name) : NotInitialized(name, args)
    \/ \E args \in ArgChoices("initialize-connection") : InitializeBegin(args)
    \/ \E call \in inflight : \E outcome \in {"ok", "constructor", "initialize"} :
           \E e \in ExtErrors : InitializeResume(call, outcome, e)
    \/ \E args \in ArgChoices("select-database") : SelectDatabase(args)
    \/ \E name \in DataTools : \E args \in ArgChoices(name) : DataNotReady(name, args)
    \/ \E name \in DataTools : \E args \in ArgChoices(name) : DataBegin(name, args)
    \/ \E call \in inflight : \E outcome \in {"ok", "miss", "throws"} :
           \E e \in ExtErrors : DataResume(call, outcome, e)

Spec == Init /\ [][Next]_vars

----------------------------------------------------------------------------
(* Startup *)

\* The process before createRavenDBServer(configFromEnv()).
InitStartup ==
    /\ proc = "starting"
    /\ auth \in Configs
    /\ defaultUrl \in {"", "u1", BadUrl}
    /\ connection = 0
    /\ conns = <<>>
    /\ stores = <<>>
    /\ inflight = {}
    /\ resp = NoCall
    /\ docs = SharedDatabase
    /\ hist = [initOk |-> FALSE, database |-> Null, selected |-> FALSE]
    /\ failure = NoFailure

\* index.ts line 24: createRavenDBServer validates the configuration first; what
\* it throws ends the process before the transport is connected.
CreateServer ==
    /\ proc = "starting"
    /\ proc' = IF validateConfig(auth, defaultUrl).ok THEN "serving" ELSE "failed"
    /\ UNCHANGED <<docs, auth, failure, defaultUrl, connection, conns, stores, inflight, resp, hist>>

\* Startup, and the requests a created server answers without a connection.
NextStartup ==
    \/ CreateServer
    \/ Deliver
    \/ \E name \in RequestNames : \E args \in ArgChoices(name) : RejectCall(name, args)
    \/ \E name \in ToolNames : \E args \in ArgChoices(name) : NotInitialized(name, args)

SpecStartup == InitStartup /\ [][NextStartup]_vars

----------------------------------------------------------------------------
(* RavenDBConnection driven through its public methods: one object, on which
   initialize and selectDatabase are called again and again.  A method's
   result is recorded in resp as the dispatcher would report it. *)

InitSession ==
    /\ proc = "serving"
    /\ auth = EnvConfig("apikey", Secret, "", "", "", "", "unset")
    /\ defaultUrl \in {"", "u1"}
    /\ connection = 1
    /\ conns = <<NewConnection>>
    /\ stores = <<>>
    /\ inflight = {}
    /\ resp = NoCall
    /\ docs = SharedDatabase
    /\ hist = [initOk |-> FALSE, database |-> Null, selected |-> FALSE]
    /\ failure = NoFailure

\* initialize() on the object up to and including `await this.close()`.
\* release "throws": documentStore.dispose() throws e, which close() lets
\* through to the catch block of initialize.
SessionInitialize(args, release, e) ==
    LET c    == connection
        call == Suspended([NewCall("initialize-connection", args) EXCEPT
                               !.consulted = TRUE, !.conn = c], "awaitClose")
    IN  /\ Serving /\ Delivered
        /\ Issue
        /\ Len(stores) < MaxInits
        /\ ~Rejection("initialize-connection", args).thrown
        /\ release = "throws" => conns[c].documentStore # 0
        /\ IF release = "throws"
           THEN /\ resp' = Responded([call EXCEPT !.releaseThrew = TRUE],
                               DispatcherCatch(
                                   handleRavenDBError(e, "connection initialization")))
                /\ UNCHANGED <<conns, stores, inflight, hist>>
           ELSE /\ conns' = [conns EXCEPT ![c] = closeConnection(@)]
                /\ stores' = closeStores(conns[c])
                /\ inflight' = inflight \cup {call}
                /\ hist' = [hist EXCEPT !.database = args.database, !.selected = FALSE]
                /\ UNCHANGED resp
        /\ UNCHANGED <<docs, proc, auth, failure, defaultUrl, connection>>

\* close() on the object.  release "throws": documentStore.dispose() throws e
\* and close() rejects with it before it clears the fields.
SessionClose(release, e) ==
    LET c    == connection
        call == [NewCall("close", NoArgs) EXCEPT
                     !.conn = c, !.store = conns[c].documentStore]
    IN  /\ Serving /\ Delivered
        /\ release = "throws" => conns[c].documentStore # 0
        /\ IF release = "throws"
           THEN /\ resp' = Responded([call EXCEPT !.releaseThrew = TRUE],
                               DispatcherCatch(e))
                /\ UNCHANGED <<conns, stores>>
           ELSE /\ conns' = [conns EXCEPT ![c] = closeConnection(@)]
                /\ stores' = closeStores(conns[c])
                /\ resp' = Responded(call, Success(<<"closed">>))
        /\ UNCHANGED <<docs, proc, auth, failure, defaultUrl, connection, inflight, hist>>

NextSession ==
    \/ Deliver
    \/ \E release \in {"ok", "throws"} : \E e \in ExtErrors : SessionClose(release, e)
    \/ \E args \in ArgChoices("initialize-connection") :
           \E release \in {"ok", "throws"} : \E e \in ExtErrors :
               SessionInitialize(args, release, e)
    \/ \E call \in inflight : \E outcome \in {"ok", "constructor", "initialize"} :
           \E e \in ExtErrors : InitializeResume(call, outcome, e)
    \/ \E args \in ArgChoices("select-database") : SelectDatabase(args)

SpecSession == InitSession /\ [][NextSession]_vars

----------------------------------------------------------------------------
(* The document tools against a server no other client writes to: one
   initialize-connection, then select-database and the document tools. *)

InitDocuments ==
    /\ proc = "serving"
    /\ auth = EnvConfig("apikey", Secret, "", "", "", "", "unset")
    /\ defaultUrl = ""
    /\ connection = 0
    /\ conns = <<>>
    /\ stores = <<>>
    /\ inflight = {}
    /\ resp = NoCall
    /\ docs = PrivateDatabase
    /\ hist = [initOk |-> FALSE, database |-> Null, selected |-> FALSE]
    /\ failure = NoFailure

DocumentTools == {"get-document", "store-document", "delete-document"}

\* The argument payloads the document tools are tried with.
DocumentArgs(name) ==
    IF name = "store-document"
    THEN {StoreArgs("A", "a"), StoreArgs("A", Missing), StoreArgs("B", Missing)}
    ELSE {Args(Missing, Missing, i, Missing) : i \in {"a", "", GenId(1)}}

NextDocuments ==
    \/ Deliver
    \/ connection = 0 /\ InitializeBegin(Args("u1", "d1", Missing, Missing))
    \/ \E call \in inflight : \E e \in ExtErrors : InitializeResume(call, "ok", e)
    \/ \E d \in Databases : SelectDatabase(Args(Missing, d, Missing, Missing))
    \/ \E name \in DocumentTools : \E args \in DocumentArgs(name) : DataBegin(name, args)
    \/ \E call \in inflight : \E outcome \in {"ok", "miss", "throws"} :
           \E e \in ExtErrors : DataResume(call, outcome, e)

SpecDocuments == InitDocuments /\ [][NextDocuments]_vars

----------------------------------------------------------------------------
(* Error normalisation on its own: one thrown value passing the catch blocks *)
(* of a handler and then the dispatcher's.                                   *)

InitErrors ==
    /\ proc = "serving"
    /\ auth = EnvConfig("apikey", Secret, "", "", "", "", "unset")
    /\ defaultUrl = ""
    /\ connection = 0
    /\ conns = <<>>
    /\ stores = <<>>
    /\ inflight = {}
    /\ resp = NoCall
    /\ docs = SharedDatabase
    /\ hist = [initOk |-> FALSE, database |-> Null, selected |-> FALSE]
    /\ failure \in {NewFailure(e) : e \in ErrorInputs}

\* A catch block calling handleRavenDBError(error, operation) on what it
\* caught; what that throws is caught by the next block out.
Catch(operation) ==
    LET thrown == handleRavenDBError(failure.value, operation)
    IN  /\ Serving /\ Delivered
        /\ failure.passes < MaxPasses
        /\ failure' = [failure EXCEPT
                           !.passes = @ + 1,
                           !.first = IF failure.passes = 0 THEN thrown ELSE @,
                           !.value = thrown]
        /\ UNCHANGED <<docs, proc, auth, defaultUrl, connection, conns, stores,
                       inflight, resp, hist>>

\* The dispatcher's catch block turning the value into the failure response.
Report ==
    /\ Serving /\ Delivered
    /\ failure.passes >= 1
    /\ resp' = Responded([NewCall("show-indexes", Args(Missing, Missing, Missing, Missing))
                              EXCEPT !.consulted = TRUE, !.ext = TRUE,
                                     !.clientThrew = TRUE],
                         DispatcherCatch(failure.value))
    /\ UNCHANGED <<docs, proc, auth, failure, defaultUrl, connection, conns, stores,
                   inflight, hist>>

NextErrors ==
    \/ Deliver
    \/ \E operation \in {"list indexes", "get document"} : Catch(operation)
    \/ Report

SpecErrors == InitErrors /\ [][NextErrors]_vars

----------------------------------------------------------------------------
(* Vocabulary of the claims *)

Done == resp.pc = "done"

Mentions(text, tok) == \E i \in 1..Len(text) : text[i] = tok

\* The arguments satisfy the shape the tool declares.
DeclaredShape(name, args) ==
    /\ args.present
    /\ name = "initialize-connection" =>
           IsString(args.server_url) /\ IsString(args.database)
    /\ name = "select-database" => IsString(args.database)
    /\ name \in {"get-document", "delete-document"} => IsString(args.id)
    /\ name = "store-document" => args.id # NotAString
    /\ name = "query-documents" => IsString(args.query)

NotConnectedFailure(r) ==
    /\ r.response.isError
    /\ \/ Mentions(r.response.message, "not_connected")
       \/ Mentions(r.response.message,
              "Connection not initialized. Please call initialize-connection first.")
       \/ Mentions(r.response.message,
              "Not connected to RavenDB. Please call initialize-connection first.")

ValidationFailure(r) ==
    /\ r.response.isError
    /\ \/ Mentions(r.response.message, "Arguments are required")
       \/ Mentions(r.response.message, "ZodIssues")

MethodNotFoundFailure(r) ==
    /\ r.response.isError
    /\ Mentions(r.response.message, "MethodNotFound")
    /\ Mentions(r.response.message, "Unknown tool:")

Unreleased == {h \in 1..Len(stores) : stores[h].disposed = 0}

\* The data calls that reach their await in this step.
Begun == {c \in inflight' \ inflight : c.ext}

----------------------------------------------------------------------------
(* Claims *)

\* C1: every tool other than initialize-connection, called with arguments of
\* its declared shape while no initialize-connection has succeeded (and none
\* is in progress), is answered with a not_connected failure and sends no
\* request to the database.
C1_NotConnectedBeforeInitialize ==
    /\ (Done /\ resp.tool \in ToolNames \ {"initialize-connection"}
             /\ DeclaredShape(resp.tool, resp.args)
             /\ ~hist.initOk /\ ~InitPending)
           => (NotConnectedFailure(resp) /\ ~resp.ext)
    /\ \A c \in inflight : c.ext => hist.initOk

\* C2: at most one client handle is unreleased in every reachable state (an
\* initialize-connection that replaces a Session releases the old handle).
C2_AtMostOneUnreleasedHandle == Cardinality(Unreleased) <= 1

\* C3: while an initialize-connection replaces an initialized Session, no
\* operation that consults the Session finds its client handle absent.
C3_NoAbsentHandleDuringReplacement ==
    (Done /\ resp.tool \in ToolNames \ {"initialize-connection"}
          /\ resp.consulted /\ hist.initOk /\ InitPending)
        => resp.store # 0

\* C4: every data, query or exploration operation runs against the client
\* handle created by the initialize-connection issued last and, unless a
\* select-database succeeded since, against the database that call named;
\* never against the handle or the database of an earlier initialize-connection.
C4_OperationsUseLatestInitialize ==
    [][\A c \in Begun :
           /\ stores[c.store].owner = Len(conns)
           /\ ~hist.selected => c.db = hist.database]_vars

C4_Witness ==
    /\ Len(conns) = 2 /\ Len(stores) = 2
    /\ conns[1].documentStore = 1 /\ conns[1].currentDatabase = "d1"
    /\ \E c \in inflight : c.ext /\ c.store = 2 /\ c.db = "d2"

\* C5: every tool call ends in exactly one response, which is either a success
\* payload without isError or a failure with isError and a message; no thrown
\* value escapes the dispatcher.
C5_OneWellFormedResponse ==
    Done =>
        /\ ~resp.response.escaped
        /\ resp \notin inflight
        /\ \/ /\ resp.response.isError
              /\ resp.response.message # <<>>
              /\ resp.response.payload = <<>>
           \/ /\ ~resp.response.isError
              /\ resp.response.payload # <<>>
              /\ resp.response.message = <<>>

C5_Witness ==
    /\ Done /\ resp.tool = "store-document" /\ resp.clientThrew
    /\ resp.response.isError /\ ~resp.response.escaped
    /\ resp.response.message # <<>>

\* C6: a call whose arguments are absent or fail the tool's declared shape is
\* answered with a validation failure, without the Session being consulted and
\* without a request to the database, whether or not a connection exists.
C6_ValidationBeforeSession ==
    /\ (Done /\ resp.tool \in ToolNames /\ ~DeclaredShape(resp.tool, resp.args))
           => (ValidationFailure(resp) /\ ~resp.consulted /\ ~resp.ext)
    /\ \A c \in inflight : DeclaredShape(c.tool, c.args)

C6_Witness ==
    /\ Done /\ resp.tool = "get-document" /\ resp.args.present
    /\ resp.args.id = Missing
    /\ ValidationFailure(resp)
    /\ connection # 0 /\ conns[connection].documentStore # 0

\* C7 (as stated): every request whose tool name is not registered is rejected
\* with "method not found".
C7_UnknownToolMethodNotFound ==
    (Done /\ resp.tool \notin ToolNames) => MethodNotFoundFailure(resp)

\* C7 (amended): a request whose tool name is not registered is rejected with
\* "method not found" when it carries arguments and with the "Arguments are
\* required" validation failure when it carries none; either way no handler
\* is reached and the Session is unchanged.
C7_UnknownToolRejected ==
    [][(resp'.pc = "done" /\ resp'.tool \notin ToolNames) =>
           /\ resp'.args.present => MethodNotFoundFailure(resp')
           /\ ~resp'.args.present =>
                  /\ resp'.response.isError
                  /\ Mentions(resp'.response.message, "Arguments are required")
           /\ ~resp'.consulted /\ ~resp'.ext
           /\ connection' = connection /\ conns' = conns /\ stores' = stores
           /\ inflight' = inflight]_vars

C7_Witness ==
    /\ Done /\ resp.tool = "drop-database" /\ resp.args.present
    /\ MethodNotFoundFailure(resp)
    /\ connection # 0 /\ conns[connection].documentStore # 0

\* C8: on a ready Session, show-indexes answers a failure of the index
\* discovery call with the success payload {indexes: []}, never with a failure.
C8_ShowIndexesDegradesToEmpty ==
    (Done /\ resp.tool = "show-indexes" /\ resp.clientThrew)
        => (~resp.response.isError /\ resp.response.payload = <<"indexes">>)

\* C9: on an initialized Session, select-database(d2) with a non-empty d2
\* succeeds without a request to the database and without changing the client
\* handle, and every data operation begun afterwards runs against d2.
C9_SelectDatabaseRetargets ==
    [][/\ (/\ resp'.pc = "done" /\ resp'.tool = "select-database"
           /\ resp'.args.present /\ resp'.args.database \in Databases
           /\ connection # 0 /\ conns[connection].documentStore # 0)
          => /\ ~resp'.response.isError
             /\ resp'.response.payload = <<"database", resp'.args.database>>
             /\ ~resp'.ext
             /\ connection' = connection /\ stores' = stores
             /\ conns'[connection].documentStore = conns[connection].documentStore
       /\ \A c \in Begun : hist.selected => c.db = hist.database]_vars

C9_Witness ==
    /\ hist.initOk /\ hist.selected /\ hist.database = "d2"
    /\ \E c \in inflight : c.ext /\ c.db = "d2" /\ c.store = 1

\* C10: no error message returned to the caller contains the configured
\* credential value.
C10_NoCredentialInMessages ==
    Done => ~Mentions(resp.response.message, Secret)

\* C14: initialize-connection without server_url succeeds with the configured
\* default URL (unless the client itself fails) when one is configured, and
\* fails when none is.
C14_DefaultUrlFallback ==
    (/\ Done /\ resp.tool = "initialize-connection" /\ resp.args.present
     /\ resp.args.server_url = Missing /\ IsString(resp.args.database))
        => IF defaultUrl # ""
           THEN resp.consulted /\ ~ValidationFailure(resp)
           ELSE resp.response.isError

\* C16: when the process has exited on SIGINT or SIGTERM, the client handle
\* the Session held has been released.
C16_SignalReleasesHandle ==
    (proc = "exit 0" /\ connection # 0 /\ conns[connection].documentStore # 0)
        => stores[conns[connection].documentStore].disposed >= 1

\* The selected authentication mode lacks a credential field it requires.
CredentialMissing(c) ==
    \/ c.authMethod = "apikey" /\ c.apiKey = ""
    \/ c.authMethod = "certificate" /\ c.certPath = ""
    \/ c.authMethod = "username" /\ (c.username = "" \/ c.password = "")

\* C17 (as stated): server creation fails exactly when the selected
\* authentication mode lacks a required credential field, and no tool call is
\* served unless creation succeeded.
C17_CreationFailsIffCredentialMissing ==
    /\ proc = "failed" => CredentialMissing(auth)
    /\ proc = "serving" => ~CredentialMissing(auth)
    /\ ~Delivered => proc = "serving"

\* C17 (amended): server creation fails exactly when the selected
\* authentication mode lacks a required credential field or the configuration
\* fails the basic schema (a default URL that is not a URL, a query timeout
\* that is not a positive number); no tool call is served unless it succeeded.
C17_CreationFailsIffConfigInvalid ==
    LET invalid == \/ CredentialMissing(auth)
                   \/ defaultUrl = BadUrl
                   \/ auth.queryTimeout = "invalid"
    IN  /\ proc = "failed" => invalid
        /\ proc = "serving" => ~invalid
        /\ ~Delivered => proc = "serving"

C17_Witness ==
    /\ proc = "failed"
    /\ auth.authMethod = "username" /\ auth.username = "user" /\ auth.password = ""
    /\ defaultUrl = "u1" /\ auth.queryTimeout = "positive"

\* C18: the Session never holds a client handle without a non-empty current
\* database.
C18_NoConnectedWithoutDatabase ==
    (connection # 0 /\ conns[connection].documentStore # 0)
        => conns[connection].currentDatabase \notin {Null, ""}

\* C19: once a tool call has responded, the work session it opened is disposed.
C19_WorkSessionDisposed == Done => resp.session # "open"

\* C20: when initialize runs on a Session that holds a client handle and
\* releasing that handle fails, initialize still creates the new handle, sets
\* the requested database and returns success.
C20_ReleaseFailureNotFatal ==
    (/\ Done /\ resp.tool = "initialize-connection" /\ resp.releaseThrew
     /\ resp.args.server_url # "")
        => /\ ~resp.response.isError
           /\ conns[connection].documentStore # 0
           /\ conns[connection].currentDatabase = resp.args.database

\* The document a responded call addressed.
KeyOf(r) == <<stores[r.store].url, r.db, r.args.id>>

SoftMiss(r) ==
    /\ ~r.response.isError
    /\ r.response.payload = <<"error", "Document with ID", r.args.id, "not found">>

\* C11: a delete-document(id) that succeeds has removed the document, and a
\* get-document(id) on the same database whose request the database answers
\* while that delete is the last committed write yields the soft miss
\* {error: not found} without isError.
C11_DeleteThenGetSoftMiss ==
    [][/\ (resp'.pc = "done" /\ resp'.tool = "delete-document"
              /\ ~resp'.response.isError)
          => /\ docs'.last = <<"delete-document", KeyOf(resp'), Missing>>
             /\ KeyOf(resp') \notin DOMAIN docs'.content
       /\ (resp'.pc = "done" /\ resp'.tool = "get-document" /\ resp'.ext
              /\ ~resp'.clientThrew
              /\ docs.last = <<"delete-document", KeyOf(resp'), Missing>>)
          => SoftMiss(resp')]_vars

C11_Witness ==
    /\ Done /\ resp.tool = "get-document" /\ resp.args.id = "a"
    /\ docs.last = <<"delete-document", <<"u1", "d2", "a">>, Missing>>
    /\ resp.db = "d2" /\ SoftMiss(resp)
    /\ <<"u1", "d1", "a">> \in DOMAIN docs.content

C13_StoreRespondsAfterCommit ==
    (Done /\ resp.tool = "store-document") =>
        /\ ~resp.response.isError =>
               /\ resp.committed
               /\ resp.response.payload[1] = "id"
               /\ LET k == <<stores[resp.store].url, resp.db, resp.response.payload[2]>>
                  IN  /\ k \in DOMAIN docs.content
                      /\ docs.content[k] = resp.args.document
        /\ (resp.clientThrew \/ ~resp.committed) => resp.response.isError

C13_Witness ==
    /\ Done /\ resp.tool = "store-document" /\ resp.args.id = "a"
    /\ resp.committed /\ ~resp.response.isError
    /\ resp.response.payload = <<"id", "a">>

\* C15: get-document and delete-document with an empty id on a ready Session
\* are answered with a failure, never with a success or soft-miss payload.
C15_EmptyIdFails ==
    (/\ Done /\ resp.tool \in {"get-document", "delete-document"}
     /\ resp.args.present /\ resp.args.id = "" /\ resp.ext)
        => resp.response.isError

C23_OnlyInitializeLeavesUnconnected ==
    [][/\ (/\ resp'.pc = "done" /\ resp'.tool \in ToolNames \ {"initialize-connection"}
           /\ resp'.consulted /\ ~resp'.ext
           /\ connection # 0 /\ conns[connection].documentStore = 0)
          => (resp'.response.isError /\ conns' = conns /\ stores' = stores)
       /\ \A c \in Begun : c.store # 0 /\ stores[c.store].disposed = 0]_vars

\* C24: a data handler that fails the readiness check answers with a failure
\* whose text carries the category the check assigned and the explanation the
\* check produced.
C24_ReadinessFailureText ==
    (/\ Done /\ resp.tool \in DataTools /\ resp.consulted /\ ~resp.ext
     /\ connection # 0 /\ resp.response.isError)
        => \/ /\ Mentions(resp.response.message, "not_connected")
              /\ Mentions(resp.response.message,
                     "Not connected to RavenDB. Please call initialize-connection first.")
           \/ /\ Mentions(resp.response.message, "no_database")
              /\ Mentions(resp.response.message,
                     "No database selected. Please call select-database first.")

\* C26: an initialize-connection call whose arguments are absent or do not
\* have the declared shape is answered with a validation failure and leaves
\* the connection object, its client handle and its current database as they
\* were.
C26_RejectedInitializeKeepsSession ==
    [][(/\ resp'.pc = "done" /\ resp'.tool = "initialize-connection"
        /\ ~DeclaredShape("initialize-connection", resp'.args))
          => /\ ValidationFailure(resp')
             /\ connection' = connection /\ conns' = conns /\ stores' = stores
             /\ inflight' = inflight]_vars

C26_Witness ==
    /\ Done /\ resp.tool = "initialize-connection"
    /\ resp.args.present /\ resp.args.server_url = Missing
    /\ ValidationFailure(resp)
    /\ connection # 0 /\ conns[connection].documentStore # 0
    /\ conns[connection].currentDatabase \in Databases

\* C27: once an initialize-connection that passed argument validation has
\* failed after an earlier one succeeded, every select-database and data
\* operation called next fails with not_connected and sends no request to the
\* database, until another initialize-connection succeeds.
C27_FailedInitializeDropsConnection ==
    [][(/\ connection # 0 /\ ~InitPending
        /\ conns[connection].currentDatabase = Null
        /\ \E h \in 1..Len(stores) :
               /\ stores[h].owner # connection
               /\ conns[stores[h].owner].currentDatabase # Null)
          => /\ Begun = {}
             /\ (/\ resp'.pc = "done" /\ ~resp'.ext
                 /\ resp'.tool \in ToolNames \ {"initialize-connection"}
                 /\ DeclaredShape(resp'.tool, resp'.args))
                   => NotConnectedFailure(resp')]_vars

\* C28: a data, query or exploration handler, whether it succeeds or fails,
\* leaves the connection object, its client handle and its current database
\* name as they were before the call.
C28_HandlersKeepSessionState ==
    [][((resp'.pc = "done" /\ resp'.tool \in DataTools) \/ Begun # {})
          => (connection' = connection /\ conns' = conns /\ stores' = stores)]_vars

C28_Witness ==
    /\ Done /\ resp.tool \in DataTools /\ resp.ext /\ resp.clientThrew
    /\ resp.response.isError
    /\ connection # 0 /\ resp.store # 0
    /\ conns[connection].documentStore = resp.store
    /\ conns[connection].currentDatabase = resp.db
    /\ stores[resp.store].disposed = 0

Says(text, words) == \E w \in words : Contains(text, w)

\* The token that follows a label in a formatted message ("" if none does).
After(text, label) ==
    IF \E i \in 1..(Len(text) - 1) : text[i] = label
    THEN text[(CHOOSE i \in 1..(Len(text) - 1) : text[i] = label) + 1]
    ELSE ""

Occurrences(text, tok) == Cardinality({i \in 1..Len(text) : text[i] = tok})

MentionsCertificate(text) == Says(text, {"certificate", "cert"})
MentionsLogin(text) == Says(text, {"username", "password", "credentials", "unauthorized"})
MentionsApiKey(text) == Says(text, {"api key", "apikey"})

\* The category the priority list of the claim gives a text.
CategoryOf(text) ==
    CASE MentionsCertificate(text)
             /\ Says(text, {"not found", "could not find", "no such file"})
             -> "certificate_not_found"
      [] MentionsCertificate(text)
             /\ ~Says(text, {"not found", "could not find", "no such file"})
             /\ Says(text, {"password", "passphrase"})
             -> "certificate_password_invalid"
      [] MentionsCertificate(text)
             /\ ~Says(text, {"not found", "could not find", "no such file",
                             "password", "passphrase"})
             /\ Says(text, {"invalid", "malformed", "corrupt"})
             -> "certificate_invalid"
      [] MentionsCertificate(text)
             /\ ~Says(text, {"not found", "could not find", "no such file",
                             "password", "passphrase", "invalid", "malformed",
                             "corrupt"})
             /\ Says(text, {"expired"})
             -> "certificate_expired"
      [] MentionsCertificate(text)
             /\ ~Says(text, {"not found", "could not find", "no such file",
                             "password", "passphrase", "invalid", "malformed",
                             "corrupt", "expired"})
             -> "certificate_error"
      [] ~MentionsCertificate(text) /\ MentionsLogin(text) -> "auth_failed"
      [] ~MentionsCertificate(text) /\ ~MentionsLogin(text) /\ MentionsApiKey(text)
             -> "api_key_invalid"
      [] OTHER -> "unknown"

C30_NormalizedOnce ==
    /\ failure.passes >= 1
          => /\ failure.value = failure.first
             /\ failure.value.kind = "McpError"
             /\ Occurrences(failure.value.message, "Error during") =
                    IF failure.input.kind = "McpError" THEN 0 ELSE 1
    /\ (Done /\ failure.passes >= 1)
          => resp.response.message = <<"MCP Error:">> \o failure.first.message

C30_Witness ==
    /\ Done /\ failure.passes = MaxPasses
    /\ failure.input.kind = "Error"
    /\ Contains(failure.input.message, "password")
    /\ failure.value = failure.first
    /\ Occurrences(resp.response.message, "Error during") = 1

====
